---- MODULE Spec2Model ----
(***************************************************************************)
(* The ABS controller of AutoSystemSim                                     *)
(* (ecu_safety_systems/abs_control.{h,cpp}) as a state machine.            *)
(*                                                                         *)
(* Numbers.  The controller computes in double.  Sensor readings, the      *)
(* vehicle-speed hint and the pedal pressure are drawn from integers, so   *)
(* every pressure is an integer (steps of 50 and 20, caps at 0 and 200)    *)
(* and every reference speed is a multiple of 1/Scale km/h: a mean of at   *)
(* most four integers, halved at most twice.  vehicle_reference_speed_kmh_ *)
(* is therefore kept exactly, in units of 1/Scale km/h, and every          *)
(* comparison of the code is the comparison of the exact values (the       *)
(* products by 0.85, 0.15 and the quotient compared with 0.20 are off the  *)
(* exact value by less than 1e-13, far less than 1/Scale).                 *)
(***************************************************************************)
EXTENDS Integers, FiniteSets, Sequences, TLC

Wheels == 0..3                       \* 0:FL, 1:FR, 2:RL, 3:RR

Scale == 4 * 4 * 3                   \* reference speed unit: 1/48 km/h

Max(a, b) == IF a >= b THEN a ELSE b
Min(a, b) == IF a <= b THEN a ELSE b
Abs(a) == IF a >= 0 THEN a ELSE -a

(***************************************************************************)
(* Inputs of one control cycle.  A batch has four sensors (the caller      *)
(* sizes the vector to 4, main_vehicle_controller.cpp:46).  All sensors    *)
(* report the base speed under their own id, except at most one of the     *)
(* sensors 1..LastAnomalyWheel, which reports a deviant speed or a         *)
(* neighbour's id.                                                         *)
(***************************************************************************)
LastAnomalyWheel == 2

AnomalyWheels == 1..LastAnomalyWheel
BaseSpeeds == {-5, 3, 100}
DeviantSpeeds == {0, 400}
HintSpeeds == {0, 90}
PedalPressures == {0, 30, 100, 250}
DiagSensorIds == {0, 3}              \* the draws of rand() % 4 that are tried

NeighbourId(i) == (i + 1) % 4

\* What one sensor may report when the batch's base speed is b.
Readings(i, b) ==
    IF i \in AnomalyWheels /\ i \in Wheels
    THEN [id : {i, NeighbourId(i)}, value : {b} \cup DeviantSpeeds]
    ELSE {[id |-> i, value |-> b]}

Anomalies(s, b) ==
    Cardinality({i \in Wheels : s[i].value # b})
        + Cardinality({i \in Wheels : s[i].id # i})

SensorBatches ==
    UNION { { s \in [Wheels -> UNION {Readings(i, b) : i \in Wheels}] :
                /\ \A i \in Wheels : s[i] \in Readings(i, b)
                /\ Anomalies(s, b) <= 1 } : b \in BaseSpeeds }

VARIABLES
    current_abs_state_,              \* ABSState
    wheel_data_,                     \* [Wheels -> WheelSensorData]
    vehicle_reference_speed_kmh_,    \* in 1/Scale km/h
    cycles_since_last_intervention_,
    fault_code_,
    call                             \* the last call made on the controller, and its arguments

vars == <<current_abs_state_, wheel_data_, vehicle_reference_speed_kmh_,
          cycles_since_last_intervention_, fault_code_, call>>

(***************************************************************************)
(* ABSControl::updateVehicleReferenceSpeed                                 *)
(***************************************************************************)
RECURSIVE SpeedScan(_, _, _)
SpeedScan(wheel_speed_sensors, i, acc) ==
    IF i \notin Wheels THEN acc
    ELSE IF wheel_speed_sensors[i].value >= 0
         THEN SpeedScan(wheel_speed_sensors, i + 1,
                  [sum_speeds      |-> acc.sum_speeds + wheel_speed_sensors[i].value,
                   valid_sensors   |-> acc.valid_sensors + 1,
                   max_wheel_speed |-> Max(acc.max_wheel_speed, wheel_speed_sensors[i].value)])
         ELSE SpeedScan(wheel_speed_sensors, i + 1, acc)

\* A reference speed that blends in the hint however far it is from the mean.
ReferenceSpeed_AlwaysBlends(wheel_speed_sensors, current_vehicle_speed_from_state) ==
    LET acc == SpeedScan(wheel_speed_sensors, 0,
                   [sum_speeds |-> 0, valid_sensors |-> 0, max_wheel_speed |-> 0])
        hint == current_vehicle_speed_from_state * Scale
        maxw == acc.max_wheel_speed * Scale
    IN  IF acc.valid_sensors > 0
        THEN LET avg_wheel_speed == (acc.sum_speeds * Scale) \div acc.valid_sensors
                 blended == IF hint > 0
                            THEN (hint + avg_wheel_speed) \div 2
                            ELSE avg_wheel_speed
                 adjusted == IF maxw > blended /\ blended > 5 * Scale
                             THEN (blended + maxw) \div 2
                             ELSE blended
             IN  Min(adjusted, 300 * Scale)
        ELSE Min(0, 300 * Scale)

\* A reference speed without the cap at 300 km/h.
ReferenceSpeed_NoClamp(wheel_speed_sensors, current_vehicle_speed_from_state) ==
    LET acc == SpeedScan(wheel_speed_sensors, 0,
                   [sum_speeds |-> 0, valid_sensors |-> 0, max_wheel_speed |-> 0])
        hint == current_vehicle_speed_from_state * Scale
        maxw == acc.max_wheel_speed * Scale
    IN  IF acc.valid_sensors > 0
        THEN LET avg_wheel_speed == (acc.sum_speeds * Scale) \div acc.valid_sensors
                 blended == IF hint > 0 /\ Abs(hint - avg_wheel_speed) < 20 * Scale
                            THEN (hint + avg_wheel_speed) \div 2
                            ELSE avg_wheel_speed
             IN  IF maxw > blended /\ blended > 5 * Scale
                 THEN (blended + maxw) \div 2
                 ELSE blended
        ELSE 0

\* The reference speed the call computes, in 1/Scale km/h.
ReferenceSpeed(wheel_speed_sensors, current_vehicle_speed_from_state) ==
    LET acc == SpeedScan(wheel_speed_sensors, 0,
                   [sum_speeds |-> 0, valid_sensors |-> 0, max_wheel_speed |-> 0])
        hint == current_vehicle_speed_from_state * Scale
        maxw == acc.max_wheel_speed * Scale
    IN  IF acc.valid_sensors > 0
        THEN LET avg_wheel_speed == (acc.sum_speeds * Scale) \div acc.valid_sensors
                 blended == IF hint > 0 /\ Abs(hint - avg_wheel_speed) < 20 * Scale
                            THEN (hint + avg_wheel_speed) \div 2
                            ELSE avg_wheel_speed
                 adjusted == IF maxw > blended /\ blended > 5 * Scale
                             THEN (blended + maxw) \div 2
                             ELSE blended
             IN  Min(adjusted, 300 * Scale)
        ELSE Min(0, 300 * Scale)

\* The wheel channels after the call stored the readings (abs_control.cpp:75).
StoreSpeeds(wd, wheel_speed_sensors) ==
    [i \in Wheels |-> [wd[i] EXCEPT !.speed_kmh = wheel_speed_sensors[i].value]]

(***************************************************************************)
(* ABSControl::detectWheelLockup, for a wheel speed in km/h and the        *)
(* reference speed in 1/Scale km/h.                                        *)
(*   slip_ratio > 0.20   <=>  (ref - w) * 5 > ref      (ref > 1 km/h)      *)
(*   w < ref * 0.85      <=>  w * 20 < ref * 17                            *)
(***************************************************************************)
\* A detector whose second condition asks for a wheel below 75% of the
\* reference.
detectWheelLockup_Below75(speed_kmh, ref) ==
    IF ref < 5 * Scale THEN FALSE
    ELSE LET w == speed_kmh * Scale
             slip_over_20 == IF ref > 1 * Scale THEN (ref - w) * 5 > ref ELSE FALSE
         IN  slip_over_20 /\ w * 4 < ref * 3

\* A detector that already fires at a slip of exactly 20%.
detectWheelLockup_InclusiveSlip(speed_kmh, ref) ==
    IF ref < 5 * Scale THEN FALSE
    ELSE LET w == speed_kmh * Scale
             slip_over_20 == IF ref > 1 * Scale THEN (ref - w) * 5 >= ref ELSE FALSE
         IN  slip_over_20 /\ w * 20 < ref * 17

\* A detector without the low-speed floor.
detectWheelLockup_NoFloor(speed_kmh, ref) ==
    LET w == speed_kmh * Scale
        slip_over_20 == IF ref > 1 * Scale THEN (ref - w) * 5 > ref ELSE FALSE
    IN  slip_over_20 /\ w * 20 < ref * 17

detectWheelLockup(speed_kmh, ref) ==
    IF ref < 5 * Scale THEN FALSE
    ELSE LET w == speed_kmh * Scale
             slip_over_20 == IF ref > 1 * Scale THEN (ref - w) * 5 > ref ELSE FALSE
         IN  slip_over_20 /\ w * 20 < ref * 17

(***************************************************************************)
(* The pressure steps                                                      *)
(***************************************************************************)
ClampPressure(p) == Max(0, Min(p, 200))

\* A release that holds the pressure instead.
releasePressure_Hold(p) == p

releasePressure(p) == Max(0, p - 50)

\* A reapply with the step of the release.
reapplyPressure_Step50(p) == p + 50

reapplyPressure(p) == p + 20

\* A modulation that releases whatever the lockup flag says.
modulateBrakePressure_AlwaysRelease(w, ref) ==
    [w EXCEPT !.applied_brake_pressure_bar = ClampPressure(releasePressure(@))]

\* ABSControl::modulateBrakePressure on one wheel channel
modulateBrakePressure(w, ref) ==
    LET p == w.applied_brake_pressure_bar
        q == IF w.is_locking THEN releasePressure(p)
             ELSE IF w.speed_kmh * Scale * 100 < ref * 95 THEN p   \* holdPressure
             ELSE reapplyPressure(p)
    IN  [w EXCEPT !.applied_brake_pressure_bar = ClampPressure(q)]

(***************************************************************************)
(* ABSControl::checkForSystemFaults: the fault code the scan raises, 0     *)
(* when it raises none.                                                    *)
(***************************************************************************)
RECURSIVE FaultScan(_, _, _, _)
FaultScan(wheel_speed_sensors, ref, i, valid_sensor_count) ==
    IF i \in Wheels
    THEN IF wheel_speed_sensors[i].id # i THEN 10 + i
         ELSE IF wheel_speed_sensors[i].value < -10 \/ wheel_speed_sensors[i].value > 350
              THEN 20 + i
         ELSE FaultScan(wheel_speed_sensors, ref, i + 1,
                        IF wheel_speed_sensors[i].value >= -1
                        THEN valid_sensor_count + 1 ELSE valid_sensor_count)
    ELSE IF /\ valid_sensor_count < Cardinality(Wheels)
            /\ ref > 10 * Scale
            /\ valid_sensor_count = 0
         THEN 30
         ELSE 0

\* A scan whose range check rejects the boundary values too.
RECURSIVE FaultScan_Inclusive(_, _, _, _)
FaultScan_Inclusive(wheel_speed_sensors, ref, i, valid_sensor_count) ==
    IF i \in Wheels
    THEN IF wheel_speed_sensors[i].id # i THEN 10 + i
         ELSE IF wheel_speed_sensors[i].value <= -10 \/ wheel_speed_sensors[i].value >= 350
              THEN 20 + i
         ELSE FaultScan_Inclusive(wheel_speed_sensors, ref, i + 1,
                        IF wheel_speed_sensors[i].value >= -1
                        THEN valid_sensor_count + 1 ELSE valid_sensor_count)
    ELSE IF /\ valid_sensor_count < Cardinality(Wheels)
            /\ ref > 10 * Scale
            /\ valid_sensor_count = 0
         THEN 30
         ELSE 0

checkForSystemFaults_InclusiveRange(wheel_speed_sensors, ref) ==
    FaultScan_Inclusive(wheel_speed_sensors, ref, 0, 0)

\* A fault monitor that names the id the sensor reported, not its position.
checkForSystemFaults_ReportedId(wheel_speed_sensors, ref) ==
    LET fault == FaultScan(wheel_speed_sensors, ref, 0, 0)
    IN  IF fault \in 10..13
        THEN 10 + wheel_speed_sensors[fault - 10].id
        ELSE fault

\* A fault monitor that scans on after a violation: the last one wins.
checkForSystemFaults_LastWins(wheel_speed_sensors, ref) ==
    LET violations == {i \in Wheels :
                          \/ wheel_speed_sensors[i].id # i
                          \/ wheel_speed_sensors[i].value < -10
                          \/ wheel_speed_sensors[i].value > 350}
    IN  IF violations = {}
        THEN FaultScan(wheel_speed_sensors, ref, 0, 0)
        ELSE LET i == CHOOSE v \in violations : \A u \in violations : u <= v
             IN  IF wheel_speed_sensors[i].value < -10 \/ wheel_speed_sensors[i].value > 350
                 THEN 20 + i
                 ELSE 10 + i

checkForSystemFaults(wheel_speed_sensors, ref) ==
    FaultScan(wheel_speed_sensors, ref, 0, 0)

(***************************************************************************)
(* ABSControl::processBraking                                              *)
(***************************************************************************)
\* A pass-through that also clears the lockup flags.
FaultPassThrough_ClearsFlags(wd, brake_pedal_pressure_input) ==
    [i \in Wheels |->
        [wd[i] EXCEPT !.applied_brake_pressure_bar = brake_pedal_pressure_input,
                      !.is_locking = FALSE]]

\* abs_control.cpp:265-267: a faulted controller forwards the pedal pressure
FaultPassThrough(wd, brake_pedal_pressure_input) ==
    [i \in Wheels |->
        [wd[i] EXCEPT !.applied_brake_pressure_bar = brake_pedal_pressure_input]]

\* abs_control.cpp:288
PotentialInterventionNeeded(ref, brake_pedal_pressure_input) ==
    ref > 10 * Scale /\ brake_pedal_pressure_input > 20

\* An entry check that does not leave INTERVENING.
EntryCheck_NoDrop(state, cycles, needed) ==
    IF needed /\ state = "INACTIVE"
    THEN [state |-> "MONITORING", cycles |-> cycles]
    ELSE [state |-> state, cycles |-> cycles]

\* An entry check that drops from INTERVENING to MONITORING.
EntryCheck_DropsToMonitoring(state, cycles, needed) ==
    IF ~needed /\ state = "INTERVENING"
    THEN [state |-> "MONITORING", cycles |-> 0]
    ELSE IF needed /\ state = "INACTIVE"
         THEN [state |-> "MONITORING", cycles |-> cycles]
         ELSE [state |-> state, cycles |-> cycles]

\* abs_control.cpp:290-297: state and counter after the entry check
EntryCheck(state, cycles, needed) ==
    IF ~needed /\ state = "INTERVENING"
    THEN [state |-> "INACTIVE", cycles |-> 0]
    ELSE IF needed /\ state = "INACTIVE"
         THEN [state |-> "MONITORING", cycles |-> cycles]
         ELSE [state |-> state, cycles |-> cycles]

\* A detection loop that trusts a wheel's flag in every state.
LoadAndDetect_TrustsFlag(w, state, ref, brake_pedal_pressure_input) ==
    [w EXCEPT
        !.applied_brake_pressure_bar =
            IF ~w.is_locking THEN brake_pedal_pressure_input ELSE @,
        !.is_locking = detectWheelLockup(w.speed_kmh, ref)]

\* A detection loop that reloads every wheel with the pedal pressure.
LoadAndDetect_AlwaysReloads(w, state, ref, brake_pedal_pressure_input) ==
    [w EXCEPT
        !.applied_brake_pressure_bar = brake_pedal_pressure_input,
        !.is_locking = detectWheelLockup(w.speed_kmh, ref)]

\* abs_control.cpp:304-315: one wheel of the detection loop
LoadAndDetect(w, state, ref, brake_pedal_pressure_input) ==
    [w EXCEPT
        !.applied_brake_pressure_bar =
            IF state # "INTERVENING" \/ ~w.is_locking
            THEN brake_pedal_pressure_input ELSE @,
        !.is_locking = detectWheelLockup(w.speed_kmh, ref)]

\* abs_control.cpp:323-332: one wheel of a cycle in which some wheel locks
ModulateOrFollow(w, ref, brake_pedal_pressure_input) ==
    IF w.is_locking \/ (ref - w.speed_kmh * Scale) * 100 > ref * 15
    THEN modulateBrakePressure(w, ref)
    ELSE [w EXCEPT !.applied_brake_pressure_bar = brake_pedal_pressure_input]

\* abs_control.cpp:338-349: one wheel of a clean cycle in INTERVENING
GradualReapply(w, brake_pedal_pressure_input) ==
    IF w.applied_brake_pressure_bar < brake_pedal_pressure_input
    THEN [w EXCEPT !.applied_brake_pressure_bar =
                      Min(reapplyPressure(@), brake_pedal_pressure_input)]
    ELSE [w EXCEPT !.applied_brake_pressure_bar = brake_pedal_pressure_input]

\* A hysteresis test that fires one cycle early.
InterventionComplete_Early(cycles) == cycles >= 10

\* A hysteresis test that fires one cycle late.
InterventionComplete_Late(cycles) == cycles > 11

\* abs_control.cpp:351: the hysteresis test
InterventionComplete(cycles) == cycles > 10

\* An exit that always keeps the controller attentive.
AttentionState_AlwaysMonitoring(needed) == "MONITORING"

\* abs_control.cpp:353, 358
AttentionState(needed) == IF needed THEN "MONITORING" ELSE "INACTIVE"

\* abs_control.cpp:373-375
ClampAll(wd) ==
    [i \in Wheels |->
        [wd[i] EXCEPT !.applied_brake_pressure_bar = ClampPressure(@)]]

\* A cycle that does not reset the counter when a wheel locks.
Evaluate_KeepsCount(state0, cycles0, wd, ref, brake_pedal_pressure_input) ==
    LET needed == PotentialInterventionNeeded(ref, brake_pedal_pressure_input)
        e == EntryCheck(state0, cycles0, needed)
    IN  IF e.state \in {"MONITORING", "INTERVENING"}
        THEN LET det == [i \in Wheels |->
                            LoadAndDetect(wd[i], e.state, ref, brake_pedal_pressure_input)]
                 any_wheel_locking == \E i \in Wheels : det[i].is_locking
             IN  IF any_wheel_locking
                 THEN [state  |-> "INTERVENING",
                       cycles |-> e.cycles,
                       wd     |-> ClampAll([i \in Wheels |->
                                     ModulateOrFollow(det[i], ref, brake_pedal_pressure_input)])]
                 ELSE IF e.state = "INTERVENING"
                 THEN LET n == e.cycles + 1
                      IN  [state  |-> IF InterventionComplete(n)
                                      THEN AttentionState(needed) ELSE "INTERVENING",
                           cycles |-> IF InterventionComplete(n) THEN 0 ELSE n,
                           wd     |-> ClampAll([i \in Wheels |->
                                         GradualReapply(det[i], brake_pedal_pressure_input)])]
                 ELSE [state  |-> AttentionState(needed),
                       cycles |-> e.cycles,
                       wd     |-> ClampAll(FaultPassThrough(det, brake_pedal_pressure_input))]
        ELSE [state  |-> e.state,
              cycles |-> e.cycles,
              wd     |-> ClampAll(FaultPassThrough(wd, brake_pedal_pressure_input))]

\* abs_control.cpp:286-375: the cycle once the fault check has passed;
\* wd holds the readings of this cycle, ref is this cycle's reference speed.
Evaluate(state0, cycles0, wd, ref, brake_pedal_pressure_input) ==
    LET needed == PotentialInterventionNeeded(ref, brake_pedal_pressure_input)
        e == EntryCheck(state0, cycles0, needed)
    IN  IF e.state \in {"MONITORING", "INTERVENING"}
        THEN LET det == [i \in Wheels |->
                            LoadAndDetect(wd[i], e.state, ref, brake_pedal_pressure_input)]
                 any_wheel_locking == \E i \in Wheels : det[i].is_locking
             IN  IF any_wheel_locking
                 THEN [state  |-> "INTERVENING",
                       cycles |-> 0,
                       wd     |-> ClampAll([i \in Wheels |->
                                     ModulateOrFollow(det[i], ref, brake_pedal_pressure_input)])]
                 ELSE IF e.state = "INTERVENING"
                 THEN LET n == e.cycles + 1
                      IN  [state  |-> IF InterventionComplete(n)
                                      THEN AttentionState(needed) ELSE "INTERVENING",
                           cycles |-> IF InterventionComplete(n) THEN 0 ELSE n,
                           wd     |-> ClampAll([i \in Wheels |->
                                         GradualReapply(det[i], brake_pedal_pressure_input)])]
                 ELSE [state  |-> AttentionState(needed),
                       cycles |-> e.cycles,
                       wd     |-> ClampAll(FaultPassThrough(det, brake_pedal_pressure_input))]
        ELSE [state  |-> e.state,
              cycles |-> e.cycles,
              wd     |-> ClampAll(FaultPassThrough(wd, brake_pedal_pressure_input))]

(***************************************************************************)
(* The record of a call: the operation, the arguments the call read, and a *)
(* bit that                                                                *)
(* alternates from one call to the next (a call is a step even when it     *)
(* repeats the previous one and leaves the controller as it was).          *)
(* A faulted processBraking returns after reading the pedal pressure only  *)
(* (abs_control.cpp:261-269), and runDiagnostics has no arguments: the     *)
(* arguments not read are recorded as NotRead.                             *)
(***************************************************************************)
NotRead == [wheel_speed_sensors |-> [i \in Wheels |-> [id |-> -1, value |-> 0]],
            speed_kmh |-> 0,
            brake_pedal_pressure_input |-> 0]

CallRecord(op, wheel_speed_sensors, speed_kmh, brake_pedal_pressure_input) ==
    [op |-> op,
     wheel_speed_sensors |-> wheel_speed_sensors,
     speed_kmh |-> speed_kmh,
     brake_pedal_pressure_input |-> brake_pedal_pressure_input,
     seq |-> 1 - call.seq]

\* A faulted call that clears the fault by itself once the pedal is released.
FaultedCycle_SelfClear(brake_pedal_pressure_input) ==
    /\ wheel_data_' = [i \in Wheels |->
            [wheel_data_[i] EXCEPT
                !.applied_brake_pressure_bar = brake_pedal_pressure_input]]
    /\ current_abs_state_' = IF brake_pedal_pressure_input = 0
                             THEN "INACTIVE" ELSE current_abs_state_
    /\ fault_code_' = IF brake_pedal_pressure_input = 0 THEN 0 ELSE fault_code_
    /\ UNCHANGED <<vehicle_reference_speed_kmh_, cycles_since_last_intervention_>>

\* abs_control.cpp:261-269: the call on a faulted controller
FaultedCycle(brake_pedal_pressure_input) ==
    /\ wheel_data_' = FaultPassThrough(wheel_data_, brake_pedal_pressure_input)
    /\ UNCHANGED <<current_abs_state_, vehicle_reference_speed_kmh_,
                   cycles_since_last_intervention_, fault_code_>>

\* A cycle that already passes the pedal through when it raises the fault.
ActiveCycle_FaultPassesThrough(wheel_speed_sensors, speed_kmh, brake_pedal_pressure_input) ==
    \E ref \in {ReferenceSpeed(wheel_speed_sensors, speed_kmh)},
       wd \in {StoreSpeeds(wheel_data_, wheel_speed_sensors)} :
    \E fault \in {checkForSystemFaults(wheel_speed_sensors, ref)} :
        /\ vehicle_reference_speed_kmh_' = ref
        /\ IF fault # 0
           THEN /\ current_abs_state_' = "FAULT_DETECTED"
                /\ fault_code_' = fault
                /\ wheel_data_' = FaultPassThrough(wd, brake_pedal_pressure_input)
                /\ cycles_since_last_intervention_' = 0
           ELSE \E r \in {Evaluate(current_abs_state_,
                                   cycles_since_last_intervention_,
                                   wd, ref, brake_pedal_pressure_input)} :
                    /\ current_abs_state_' = r.state
                    /\ cycles_since_last_intervention_' = r.cycles
                    /\ wheel_data_' = r.wd
                    /\ UNCHANGED fault_code_

\* abs_control.cpp:276-378: the call on a controller that is not faulted
ActiveCycle(wheel_speed_sensors, speed_kmh, brake_pedal_pressure_input) ==
    \E ref \in {ReferenceSpeed(wheel_speed_sensors, speed_kmh)},
       wd \in {StoreSpeeds(wheel_data_, wheel_speed_sensors)} :
    \E fault \in {checkForSystemFaults(wheel_speed_sensors, ref)} :
        /\ vehicle_reference_speed_kmh_' = ref
        /\ IF fault # 0
           THEN /\ current_abs_state_' = "FAULT_DETECTED"
                /\ fault_code_' = fault
                /\ wheel_data_' = wd
                /\ UNCHANGED cycles_since_last_intervention_
           ELSE \E r \in {Evaluate(current_abs_state_,
                                   cycles_since_last_intervention_,
                                   wd, ref, brake_pedal_pressure_input)} :
                    /\ current_abs_state_' = r.state
                    /\ cycles_since_last_intervention_' = r.cycles
                    /\ wheel_data_' = r.wd
                    /\ UNCHANGED fault_code_

processBraking(wheel_speed_sensors, speed_kmh, brake_pedal_pressure_input) ==
    /\ call' = IF current_abs_state_ = "FAULT_DETECTED"
               THEN CallRecord("processBraking", NotRead.wheel_speed_sensors,
                               NotRead.speed_kmh, brake_pedal_pressure_input)
               ELSE CallRecord("processBraking", wheel_speed_sensors, speed_kmh,
                               brake_pedal_pressure_input)
    /\ IF current_abs_state_ = "FAULT_DETECTED"
       THEN FaultedCycle(brake_pedal_pressure_input)
       ELSE IF current_abs_state_ = "INITIALIZING"
       THEN UNCHANGED <<current_abs_state_, wheel_data_, vehicle_reference_speed_kmh_,
                        cycles_since_last_intervention_, fault_code_>>
       ELSE ActiveCycle(wheel_speed_sensors, speed_kmh, brake_pedal_pressure_input)

(***************************************************************************)
(* ABSControl::runDiagnostics.  The three rand() draws are inputs: the     *)
(* sensor connectivity verdict, the sensor the fault code names, and the   *)
(* actuator verdict.                                                       *)
(***************************************************************************)
\* Diagnostics that end in INACTIVE whatever the checks found.
DiagnosticsOutcome_AlwaysReady(sensor_conn_ok, sensor_id, actuator_ok) ==
    [state |-> "INACTIVE",
     fault |-> IF ~sensor_conn_ok THEN 50 + sensor_id
               ELSE IF ~actuator_ok THEN 70 ELSE 0]

\* Diagnostics without the final step: a pass leaves INITIALIZING.
DiagnosticsOutcome_NoFinish(sensor_conn_ok, sensor_id, actuator_ok) ==
    IF ~sensor_conn_ok THEN [state |-> "FAULT_DETECTED", fault |-> 50 + sensor_id]
    ELSE IF ~actuator_ok THEN [state |-> "FAULT_DETECTED", fault |-> 70]
    ELSE [state |-> "INITIALIZING", fault |-> 0]

\* Diagnostics whose actuator fault replaces a sensor fault.
DiagnosticsOutcome_ActuatorOverrides(sensor_conn_ok, sensor_id, actuator_ok) ==
    IF ~actuator_ok THEN [state |-> "FAULT_DETECTED", fault |-> 70]
    ELSE IF ~sensor_conn_ok THEN [state |-> "FAULT_DETECTED", fault |-> 50 + sensor_id]
    ELSE [state |-> "INACTIVE", fault |-> 0]

DiagnosticsOutcome(sensor_conn_ok, sensor_id, actuator_ok) ==
    LET s1 == IF ~sensor_conn_ok
              THEN [state |-> "FAULT_DETECTED", fault |-> 50 + sensor_id]
              ELSE [state |-> "INITIALIZING", fault |-> 0]
        s2 == IF ~actuator_ok /\ s1.state # "FAULT_DETECTED"
              THEN [state |-> "FAULT_DETECTED", fault |-> 70]
              ELSE s1
    IN  IF s2.state = "FAULT_DETECTED" THEN s2
        ELSE [state |-> "INACTIVE", fault |-> s2.fault]

\* The trace of a diagnostics run: the verdicts of the two checks, and the
\* sensor the run named if the sensor check failed (abs_control.cpp:400-404,
\* 424); no sensor is drawn when the check passes.
DiagnosticsRecord(sensor_conn_ok, sensor_id, actuator_ok) ==
    [op |-> "runDiagnostics",
     wheel_speed_sensors |-> NotRead.wheel_speed_sensors,
     speed_kmh |-> NotRead.speed_kmh,
     brake_pedal_pressure_input |-> NotRead.brake_pedal_pressure_input,
     seq |-> 1 - call.seq,
     sensor_conn_ok |-> sensor_conn_ok,
     sensor_id |-> IF sensor_conn_ok THEN -1 ELSE sensor_id,
     actuator_ok |-> actuator_ok]

\* Diagnostics that do not reset the fault code before the checks.
runDiagnostics_KeepsCode(sensor_conn_ok, sensor_id, actuator_ok) ==
    LET d == DiagnosticsOutcome(sensor_conn_ok, sensor_id, actuator_ok)
    IN  /\ current_abs_state_' = d.state
        /\ fault_code_' = IF d.fault # 0 THEN d.fault ELSE fault_code_
        /\ call' = DiagnosticsRecord(sensor_conn_ok, sensor_id, actuator_ok)
        /\ UNCHANGED <<wheel_data_, vehicle_reference_speed_kmh_,
                       cycles_since_last_intervention_>>

\* Diagnostics that put the channels back to rest.
runDiagnostics_ResetsChannels(sensor_conn_ok, sensor_id, actuator_ok) ==
    LET d == DiagnosticsOutcome(sensor_conn_ok, sensor_id, actuator_ok)
    IN  /\ current_abs_state_' = d.state
        /\ fault_code_' = d.fault
        /\ call' = DiagnosticsRecord(sensor_conn_ok, sensor_id, actuator_ok)
        /\ wheel_data_' = [i \in Wheels |->
               [wheel_data_[i] EXCEPT !.applied_brake_pressure_bar = 0,
                                      !.is_locking = FALSE]]
        /\ cycles_since_last_intervention_' = 0
        /\ UNCHANGED vehicle_reference_speed_kmh_

runDiagnostics(sensor_conn_ok, sensor_id, actuator_ok) ==
    LET d == DiagnosticsOutcome(sensor_conn_ok, sensor_id, actuator_ok)
    IN  /\ current_abs_state_' = d.state
        /\ fault_code_' = d.fault
        /\ call' = DiagnosticsRecord(sensor_conn_ok, sensor_id, actuator_ok)
        /\ UNCHANGED <<wheel_data_, vehicle_reference_speed_kmh_,
                       cycles_since_last_intervention_>>

(***************************************************************************)
(* The constructor: ABSControl::ABSControl and ABSControl::initialize      *)
(***************************************************************************)
Init ==
    \E sensor_conn_ok \in BOOLEAN, sensor_id \in DiagSensorIds, actuator_ok \in BOOLEAN :
        LET d == DiagnosticsOutcome(sensor_conn_ok, sensor_id, actuator_ok)
        IN  /\ wheel_data_ = [i \in Wheels |->
                                [wheel_id |-> i, speed_kmh |-> 0, is_locking |-> FALSE,
                                 applied_brake_pressure_bar |-> 0]]
            /\ vehicle_reference_speed_kmh_ = 0
            /\ cycles_since_last_intervention_ = 0
            /\ current_abs_state_ = d.state
            /\ fault_code_ = d.fault
            /\ call = [op |-> "ABSControl",
                       wheel_speed_sensors |-> NotRead.wheel_speed_sensors,
                       speed_kmh |-> NotRead.speed_kmh,
                       brake_pedal_pressure_input |-> NotRead.brake_pedal_pressure_input,
                       seq |-> 0]

\* A faulted controller returns after reading the pedal pressure: the call is
\* the same for every batch and every hint.
FaultedBrakingCall ==
    \E brake_pedal_pressure_input \in PedalPressures :
        /\ current_abs_state_ = "FAULT_DETECTED"
        /\ processBraking(NotRead.wheel_speed_sensors, NotRead.speed_kmh,
                          brake_pedal_pressure_input)

ProcessBrakingCall ==
    \E wheel_speed_sensors \in SensorBatches, speed_kmh \in HintSpeeds,
       brake_pedal_pressure_input \in PedalPressures :
        /\ current_abs_state_ # "FAULT_DETECTED"
        /\ processBraking(wheel_speed_sensors, speed_kmh, brake_pedal_pressure_input)

RunDiagnosticsCall ==
    \E sensor_conn_ok \in BOOLEAN, sensor_id \in DiagSensorIds, actuator_ok \in BOOLEAN :
        runDiagnostics(sensor_conn_ok, sensor_id, actuator_ok)

Next == ProcessBrakingCall \/ FaultedBrakingCall \/ RunDiagnosticsCall

Spec == Init /\ [][Next]_vars

(***************************************************************************)
(* A second environment, for the properties of one cycle that need a batch *)
(* with two anomalies or a reading at the edge of the accepted range: the  *)
(* caller runs cycles with the batches of WarmBatches (all wheels at 100   *)
(* km/h, or wheel 1 standing still), which take the controller through     *)
(* Inactive, Monitoring and Intervening, and then one cycle with a batch   *)
(* of ProbeBatches, which has up to two anomalies: a sensor that reports a *)
(* neighbour's id, or a speed of DeviantProbeSpeeds.                       *)
(***************************************************************************)
CruiseBatch == [i \in Wheels |-> [id |-> i, value |-> 100]]

WarmBatches == {CruiseBatch, [CruiseBatch EXCEPT ![1].value = 0]}
WarmPedals == {30, 100}
DeviantProbeSpeeds == {-11, -10, 0, 70, 350, 351}
ProbePedals == {100, 250}

\* Sensor i reports a neighbour's id, or a deviant speed.
WrongId(batch, i) == [batch EXCEPT ![i].id = NeighbourId(i)]
WrongSpeeds(batch, i) == {[batch EXCEPT ![i].value = v] : v \in DeviantProbeSpeeds}
OneAnomaly(batch) ==
    UNION {{WrongId(batch, i)} \cup WrongSpeeds(batch, i) : i \in Wheels}

ProbeBatches ==
    {CruiseBatch} \cup OneAnomaly(CruiseBatch)
        \cup UNION {OneAnomaly(batch) : batch \in OneAnomaly(CruiseBatch)}

\* No probe has been made yet: the last call read a warm-up batch or none.
Warm == call.wheel_speed_sensors \in WarmBatches \cup {NotRead.wheel_speed_sensors}

WarmUpCall ==
    \E wheel_speed_sensors \in WarmBatches, brake_pedal_pressure_input \in WarmPedals :
        /\ Warm
        /\ processBraking(wheel_speed_sensors, 0, brake_pedal_pressure_input)

ProbeCall ==
    \E wheel_speed_sensors \in ProbeBatches,
       brake_pedal_pressure_input \in ProbePedals :
        /\ Warm
        /\ current_abs_state_ # "FAULT_DETECTED"
        /\ processBraking(wheel_speed_sensors, 0, brake_pedal_pressure_input)

ProbeNext == WarmUpCall \/ ProbeCall

ProbeSpec == Init /\ [][ProbeNext]_vars

(***************************************************************************)
(* A third environment, for the two estimators on their own: on a freshly  *)
(* constructed controller, one run of updateVehicleReferenceSpeed on a     *)
(* batch of UnitBatches with a hint of UnitHints, then one pass of         *)
(* detectWheelLockup over the four channels, as the loop of                *)
(* abs_control.cpp:304-315 makes it.  The speeds put readings on both      *)
(* sides of, and at, the thresholds: a hint 20 km/h from the mean, an      *)
(* estimate of 5 km/h, a slip of 20%.                                      *)
(***************************************************************************)
UnitSpeeds == {-5, 0, 10, 70, 80, 100, 110}
UnitHints == {0, 90}

UnitBatches ==
    {[i \in Wheels |-> [id |-> i, value |-> v[i]]] : v \in [Wheels -> UnitSpeeds]}

\* abs_control.cpp:64-110
updateVehicleReferenceSpeed(wheel_speed_sensors, current_vehicle_speed_from_state) ==
    /\ wheel_data_' = StoreSpeeds(wheel_data_, wheel_speed_sensors)
    /\ vehicle_reference_speed_kmh_' =
           ReferenceSpeed(wheel_speed_sensors, current_vehicle_speed_from_state)
    /\ call' = CallRecord("updateVehicleReferenceSpeed", wheel_speed_sensors,
                          current_vehicle_speed_from_state,
                          NotRead.brake_pedal_pressure_input)
    /\ UNCHANGED <<current_abs_state_, cycles_since_last_intervention_, fault_code_>>

\* abs_control.cpp:311, for the four channels
DetectionPass ==
    /\ wheel_data_' = [i \in Wheels |->
           [wheel_data_[i] EXCEPT !.is_locking =
               detectWheelLockup(wheel_data_[i].speed_kmh, vehicle_reference_speed_kmh_)]]
    /\ call' = [call EXCEPT !.op = "detectWheelLockup", !.seq = 1 - call.seq]
    /\ UNCHANGED <<current_abs_state_, vehicle_reference_speed_kmh_,
                   cycles_since_last_intervention_, fault_code_>>

UpdateReferenceCall ==
    \E wheel_speed_sensors \in UnitBatches, speed_kmh \in UnitHints :
        /\ call.op = "ABSControl"
        /\ current_abs_state_ # "FAULT_DETECTED"
        /\ updateVehicleReferenceSpeed(wheel_speed_sensors, speed_kmh)

DetectLockupCall ==
    /\ call.op = "updateVehicleReferenceSpeed"
    /\ DetectionPass

UnitNext == UpdateReferenceCall \/ DetectLockupCall

UnitSpec == Init /\ [][UnitNext]_vars

(***************************************************************************)
(* A fourth environment, for a lockup that lasts: one cycle at 100 km/h    *)
(* takes the controller to Monitoring; then the caller repeats one batch   *)
(* of LockBatches (some wheels standing still, the others at 100 km/h)     *)
(* under one pedal pressure of DrainPedals, for up to DrainCycles cycles   *)
(* and for as long as the controller stays in Intervening.  The speed hint *)
(* the caller passes in the j-th of these cycles is j km/h, so the call    *)
(* record tells how long the lockup has lasted; a hint that far from the   *)
(* wheel speeds is not blended in the estimate (abs_control.cpp:91).       *)
(***************************************************************************)
DrainCycles == 5

DrainPedals == {0, 10, 30, 100, 130, 200}

LockBatches ==
    {[i \in Wheels |-> [id |-> i, value |-> IF i \in standing THEN 0 ELSE 100]] :
        standing \in (SUBSET Wheels) \ {{}, Wheels}}

ApproachCall ==
    \E brake_pedal_pressure_input \in WarmPedals :
        /\ call.op = "ABSControl"
        /\ current_abs_state_ # "FAULT_DETECTED"
        /\ processBraking(CruiseBatch, 0, brake_pedal_pressure_input)

FirstLockedCall ==
    \E wheel_speed_sensors \in LockBatches, brake_pedal_pressure_input \in DrainPedals :
        /\ call.op = "processBraking"
        /\ call.speed_kmh = 0
        /\ current_abs_state_ = "MONITORING"
        /\ processBraking(wheel_speed_sensors, 1, brake_pedal_pressure_input)

NextLockedCall ==
    /\ call.op = "processBraking"
    /\ call.speed_kmh \in 1..(DrainCycles - 1)
    /\ current_abs_state_ = "INTERVENING"
    /\ processBraking(call.wheel_speed_sensors, call.speed_kmh + 1,
                      call.brake_pedal_pressure_input)

DrainNext == ApproachCall \/ FirstLockedCall \/ NextLockedCall

DrainSpec == Init /\ [][DrainNext]_vars

(***************************************************************************)
(* A fifth environment, for the recovery from a lockup: the approach and   *)
(* the first locking cycle of DrainSpec, then cycles at 100 km/h on all    *)
(* wheels under a pedal pressure of RecoveryPedals, for as long as the     *)
(* controller stays in Intervening.  The hint counts the cycles of the     *)
(* run, the locking cycle being the first, up to RecoveryCycles.           *)
(***************************************************************************)
RecoveryCycles == 12

RecoveryPedals == {0, 30, 100}

RecoveryCall ==
    \E brake_pedal_pressure_input \in RecoveryPedals :
        /\ call.op = "processBraking"
        /\ call.speed_kmh \in 1..(RecoveryCycles - 1)
        /\ current_abs_state_ = "INTERVENING"
        /\ processBraking(CruiseBatch, call.speed_kmh + 1, brake_pedal_pressure_input)

RecoveryNext == ApproachCall \/ FirstLockedCall \/ RecoveryCall

RecoverySpec == Init /\ [][RecoveryNext]_vars

(***************************************************************************)
(* Vocabulary of the properties                                            *)
(***************************************************************************)
Pressure(i) == wheel_data_[i].applied_brake_pressure_bar

\* The last call was processBraking.
BrakingReturned == call.op = "processBraking"

\* The last call was processBraking on a faulted controller.
FaultedBrakingReturned ==
    BrakingReturned /\ call.wheel_speed_sensors = NotRead.wheel_speed_sensors

\* The last call was processBraking on a controller that was not faulted:
\* it read its batch.
ActiveBrakingReturned ==
    BrakingReturned /\ call.wheel_speed_sensors # NotRead.wheel_speed_sensors

RangeFault(value) == value < -10 \/ value > 350

\* Sensor i is the first sensor of the batch with a violation, and the
\* violation is its reading.
FirstViolationIsRange(batch, i) ==
    /\ RangeFault(batch[i].value)
    /\ batch[i].id = i
    /\ \A j \in Wheels : j < i => batch[j].id = j /\ ~RangeFault(batch[j].value)

(***************************************************************************)
(* C1.  After every processBraking call, every wheel's applied pressure is *)
(* in [0, 200], from any state (FaultDetected included) and for any pedal  *)
(* pressure >= 0.  The code forwards the raw pedal pressure on a faulted   *)
(* controller and returns before the clamp of abs_control.cpp:373-375.     *)
(***************************************************************************)
C1_PressureWithinLimits ==
    BrakingReturned =>
        \A i \in Wheels : Pressure(i) >= 0 /\ Pressure(i) <= 200

(***************************************************************************)
(* C2.  Once the controller is in FaultDetected, a processBraking call     *)
(* changes neither system_state nor fault_code, and the only step that     *)
(* leaves FaultDetected is a runDiagnostics call that passes (state        *)
(* Inactive, fault code 0).                                                *)
(***************************************************************************)
C2_FaultPersists ==
    [][current_abs_state_ = "FAULT_DETECTED" =>
        /\ call'.op = "processBraking" =>
              /\ current_abs_state_' = "FAULT_DETECTED"
              /\ fault_code_' = fault_code_
        /\ current_abs_state_' # "FAULT_DETECTED" =>
              /\ call'.op = "runDiagnostics"
              /\ current_abs_state_' = "INACTIVE"
              /\ fault_code_' = 0]_vars

\* processBraking has run on a controller the fault monitor had faulted.
C2_Witness ==
    /\ FaultedBrakingReturned
    /\ current_abs_state_ = "FAULT_DETECTED"
    /\ fault_code_ = 22
    /\ call.brake_pedal_pressure_input = 0

(***************************************************************************)
(* C3.  A processBraking call on a controller that is not faulted, with a  *)
(* batch whose first violation is an out-of-range reading at index i, ends *)
(* in FaultDetected with fault_code 20+i and with all four wheels at the   *)
(* pedal pressure of that call.  The code returns right after the fault    *)
(* check (abs_control.cpp:281-284) and leaves the pressures as they were.  *)
(***************************************************************************)
C3_FaultSuppressesModulation ==
    ActiveBrakingReturned =>
        \A i \in Wheels :
            FirstViolationIsRange(call.wheel_speed_sensors, i) =>
                /\ current_abs_state_ = "FAULT_DETECTED"
                /\ fault_code_ = 20 + i
                /\ \A w \in Wheels : Pressure(w) = call.brake_pedal_pressure_input

(***************************************************************************)
(* C9.  A processBraking call that starts in FaultDetected sets all four   *)
(* wheels to the raw pedal pressure and changes nothing else: state, fault *)
(* code, reference speed, wheel speeds, lockup flags and the counter.      *)
(***************************************************************************)
C9_FaultedCallFrame ==
    [][current_abs_state_ = "FAULT_DETECTED" /\ call'.op = "processBraking" =>
        /\ \A i \in Wheels :
              wheel_data_'[i] =
                  [wheel_data_[i] EXCEPT !.applied_brake_pressure_bar =
                                             call'.brake_pedal_pressure_input]
        /\ current_abs_state_' = current_abs_state_
        /\ fault_code_' = fault_code_
        /\ vehicle_reference_speed_kmh_' = vehicle_reference_speed_kmh_
        /\ cycles_since_last_intervention_' = cycles_since_last_intervention_]_vars

\* A faulted call has forwarded 250 bar and kept a lockup flag and the counter.
C9_Witness ==
    /\ FaultedBrakingReturned
    /\ current_abs_state_ = "FAULT_DETECTED"
    /\ call.brake_pedal_pressure_input = 250
    /\ \A i \in Wheels : Pressure(i) = 250
    /\ \E i \in Wheels : wheel_data_[i].is_locking
    /\ vehicle_reference_speed_kmh_ > 10 * Scale

(***************************************************************************)
(* The lockup condition and the entry condition as the properties state    *)
(* them, on a wheel speed in km/h and a reference speed in 1/Scale km/h.   *)
(***************************************************************************)
SlipOver20(speed, ref) == (ref - speed * Scale) * 5 > ref

Below85(speed, ref) == speed * Scale * 20 < ref * 17

LockupCondition(speed, ref) ==
    ref >= 5 * Scale /\ SlipOver20(speed, ref) /\ Below85(speed, ref)

EntryCondition(ref, pedal) == ref > 10 * Scale /\ pedal > 20

\* This step is a processBraking call on a controller that is not faulted,
\* and the call raises no fault.
CleanBrakingStep ==
    /\ current_abs_state_ \in {"INACTIVE", "MONITORING", "INTERVENING"}
    /\ call'.op = "processBraking"
    /\ current_abs_state_' # "FAULT_DETECTED"

\* The speed the call read for wheel w, and the reference speed it computed.
SpeedRead(w) == call'.wheel_speed_sensors[w].value

NoWheelLocks ==
    \A w \in Wheels : ~LockupCondition(SpeedRead(w), vehicle_reference_speed_kmh_')

EntryHolds ==
    EntryCondition(vehicle_reference_speed_kmh_', call'.brake_pedal_pressure_input)

(***************************************************************************)
(* C4 as stated.  In a cycle that starts in Inactive, Monitoring or        *)
(* Intervening, raises no fault, has the entry condition true and in which *)
(* wheel w satisfies the lockup condition, the state is Intervening when   *)
(* the call returns and wheel w's pressure is lower than before the call.  *)
(***************************************************************************)
C4_LockupLowersPressure ==
    [][CleanBrakingStep /\ EntryHolds =>
        \A w \in Wheels :
            LockupCondition(SpeedRead(w), vehicle_reference_speed_kmh_') =>
                /\ current_abs_state_' = "INTERVENING"
                /\ Pressure(w)' < Pressure(w)]_vars

(***************************************************************************)
(* C4 as amended.  In such a cycle the state is Intervening when the call  *)
(* returns and wheel w's pressure is its base pressure less 50 bar, not    *)
(* below 0 and not above 200; the base is the wheel's pressure before the  *)
(* call when the cycle starts in Intervening with w already flagged as     *)
(* locking, and the pedal pressure of the call otherwise.                  *)
(***************************************************************************)
C4_LockupReleasesFromBase ==
    [][CleanBrakingStep /\ EntryHolds =>
        \A w \in Wheels :
            LockupCondition(SpeedRead(w), vehicle_reference_speed_kmh_') =>
                LET base == IF current_abs_state_ = "INTERVENING"
                                 /\ wheel_data_[w].is_locking
                            THEN Pressure(w)
                            ELSE call'.brake_pedal_pressure_input
                    released == IF base > 50 THEN base - 50 ELSE 0
                IN  /\ current_abs_state_' = "INTERVENING"
                    /\ Pressure(w)' = IF released > 200 THEN 200 ELSE released]_vars

\* Wheel 1 stands still at 100 bar of pedal pressure and has been released
\* to 0 bar: the release started from the pressure an earlier release left,
\* not from the pedal pressure.
C4_Witness ==
    /\ ActiveBrakingReturned
    /\ current_abs_state_ = "INTERVENING"
    /\ EntryCondition(vehicle_reference_speed_kmh_, call.brake_pedal_pressure_input)
    /\ call.brake_pedal_pressure_input = 100
    /\ LockupCondition(call.wheel_speed_sensors[1].value, vehicle_reference_speed_kmh_)
    /\ wheel_data_[1].is_locking
    /\ Pressure(1) = 0

(***************************************************************************)
(* C5.  In Intervening, a cycle in which no wheel locks and the entry      *)
(* condition is true counts one clean cycle: after each of the first 10    *)
(* clean cycles (counter 0..9 before the cycle) the state is still         *)
(* Intervening with the counter one higher, and the 11th (counter 10       *)
(* before the cycle) ends in Monitoring with the counter reset to 0.       *)
(***************************************************************************)
C5_HysteresisExit ==
    [][CleanBrakingStep /\ current_abs_state_ = "INTERVENING"
            /\ EntryHolds /\ NoWheelLocks =>
        /\ cycles_since_last_intervention_ \in 0..10
        /\ IF cycles_since_last_intervention_ < 10
           THEN /\ current_abs_state_' = "INTERVENING"
                /\ cycles_since_last_intervention_' =
                       cycles_since_last_intervention_ + 1
           ELSE /\ current_abs_state_' = "MONITORING"
                /\ cycles_since_last_intervention_' = 0]_vars

\* Ten clean cycles have run at 30 bar and the controller is still Intervening.
C5_Witness ==
    /\ ActiveBrakingReturned
    /\ current_abs_state_ = "INTERVENING"
    /\ cycles_since_last_intervention_ = 10
    /\ call.brake_pedal_pressure_input = 30
    /\ EntryCondition(vehicle_reference_speed_kmh_, call.brake_pedal_pressure_input)

(***************************************************************************)
(* C6.  After a processBraking call that computed a reference speed below  *)
(* 5 km/h, no wheel channel has is_locking set, whatever the flags were    *)
(* before the call.  The code sets the flags only in the detection loop    *)
(* (abs_control.cpp:304-315), which a cycle that ends Inactive through     *)
(* lines 290-293 and 364-370 does not run: a flag of an earlier cycle      *)
(* stays.  Stated for the calls that raise no fault.                       *)
(***************************************************************************)
C6_NoFlagBelowFloor ==
    /\ ActiveBrakingReturned
    /\ current_abs_state_ # "FAULT_DETECTED"
    /\ vehicle_reference_speed_kmh_ < 5 * Scale
    => \A i \in Wheels : ~wheel_data_[i].is_locking

(***************************************************************************)
(* C7.  After a processBraking call that started in Inactive, Monitoring   *)
(* or Intervening, raised no fault and computed a reference speed below    *)
(* 5 km/h, every wheel is at the pedal pressure (capped at 200) and the    *)
(* state is Inactive.                                                      *)
(***************************************************************************)
C7_LowSpeedBypass ==
    /\ ActiveBrakingReturned
    /\ current_abs_state_ # "FAULT_DETECTED"
    /\ vehicle_reference_speed_kmh_ < 5 * Scale
    => /\ current_abs_state_ = "INACTIVE"
       /\ \A i \in Wheels :
             Pressure(i) = IF call.brake_pedal_pressure_input > 200 THEN 200
                           ELSE call.brake_pedal_pressure_input

\* Wheel 1 stands still while the others turn at 3 km/h, under 100 bar, in a
\* cycle that follows an intervention (a flag of that intervention is left).
C7_Witness ==
    /\ \E i \in Wheels : wheel_data_[i].is_locking
    /\ ActiveBrakingReturned
    /\ current_abs_state_ = "INACTIVE"
    /\ vehicle_reference_speed_kmh_ > 1 * Scale
    /\ vehicle_reference_speed_kmh_ < 5 * Scale
    /\ call.wheel_speed_sensors[1].value = 0
    /\ call.brake_pedal_pressure_input = 100
    /\ \A i \in Wheels : Pressure(i) = 100

(***************************************************************************)
(* C8 as stated, for the pedal pressures an actuator can follow (up to     *)
(* 200 bar).  From a state that is not faulted, a cycle that raises no     *)
(* fault and in which no wheel satisfies the lockup condition leaves every *)
(* wheel at the pedal pressure of the call.                                *)
(***************************************************************************)
C8_OneCycleConvergence ==
    [][CleanBrakingStep /\ NoWheelLocks
            /\ call'.brake_pedal_pressure_input <= 200 =>
        \A w \in Wheels : Pressure(w)' = call'.brake_pedal_pressure_input]_vars

(***************************************************************************)
(* C8 as amended.  Such a cycle, at any pedal pressure p >= 0, leaves      *)
(* every wheel at min(p, 200), except a wheel that was flagged as locking  *)
(* and is below p in a cycle that starts in Intervening with the entry     *)
(* condition true: that wheel rises by 20 bar, to at most min(p, 200).     *)
(* A wheel that is at min(p, 200) stays there in either case.              *)
(***************************************************************************)
C8_SteadyInputConvergence ==
    [][CleanBrakingStep /\ NoWheelLocks =>
        \A w \in Wheels :
            LET p == call'.brake_pedal_pressure_input
                target == IF p > 200 THEN 200 ELSE p
                gradual == /\ current_abs_state_ = "INTERVENING"
                           /\ EntryHolds
                           /\ wheel_data_[w].is_locking
                           /\ Pressure(w) < p
            IN  /\ Pressure(w)' = IF gradual /\ Pressure(w) + 20 < target
                                  THEN Pressure(w) + 20 ELSE target
                /\ Pressure(w) = target => Pressure(w)' = target]_vars

\* The first clean cycle after wheel 1 was released to 0 bar: the pedal is at
\* 100 bar and wheel 1 is at 20 bar.
C8_Witness ==
    /\ ActiveBrakingReturned
    /\ current_abs_state_ = "INTERVENING"
    /\ cycles_since_last_intervention_ = 1
    /\ call.brake_pedal_pressure_input = 100
    /\ \A w \in Wheels :
          ~LockupCondition(call.wheel_speed_sensors[w].value,
                           vehicle_reference_speed_kmh_)
    /\ Pressure(1) = 20
    /\ Pressure(0) = 100

(***************************************************************************)
(* C10.  A processBraking call on a controller whose reference speed is    *)
(* above 10 km/h, with a batch in which every reading is invalid (negative *)
(* beyond the tolerance of 1 km/h, within the range the range check        *)
(* accepts, under the right ids), ends in FaultDetected with fault code    *)
(* 30.  The code resets the reference speed to 0 (abs_control.cpp:104)     *)
(* before the fault check compares it with 10 (abs_control.cpp:231).       *)
(***************************************************************************)
InvalidReading(value) == value < -1 /\ ~RangeFault(value)

C10_TotalSensorLoss ==
    [][/\ current_abs_state_ \in {"INACTIVE", "MONITORING", "INTERVENING"}
       /\ vehicle_reference_speed_kmh_ > 10 * Scale
       /\ call'.op = "processBraking"
       /\ \A i \in Wheels :
             /\ call'.wheel_speed_sensors[i].id = i
             /\ InvalidReading(call'.wheel_speed_sensors[i].value)
       => /\ current_abs_state_' = "FAULT_DETECTED"
          /\ fault_code_' = 30]_vars

(***************************************************************************)
(* C11.  A processBraking call on a controller that is not faulted, with a *)
(* batch the fault monitor rejects, changes neither the reference speed    *)
(* nor any wheel channel's stored speed.  The code updates both            *)
(* (abs_control.cpp:277) before it checks the batch (abs_control.cpp:280). *)
(***************************************************************************)
C11_RejectedBatchNotTrusted ==
    [][/\ current_abs_state_ \in {"INACTIVE", "MONITORING", "INTERVENING"}
       /\ call'.op = "processBraking"
       /\ current_abs_state_' = "FAULT_DETECTED"
       => /\ vehicle_reference_speed_kmh_' = vehicle_reference_speed_kmh_
          /\ \A i \in Wheels :
                wheel_data_'[i].speed_kmh = wheel_data_[i].speed_kmh]_vars

(***************************************************************************)
(* The violations of a batch as the properties state them.                 *)
(***************************************************************************)
IdMismatch(batch, i) == batch[i].id # i

NoViolationBelow(batch, i) ==
    \A j \in Wheels : j < i => ~IdMismatch(batch, j) /\ ~RangeFault(batch[j].value)

\* This step is a processBraking call on a controller that is not faulted.
ActiveBrakingStep ==
    /\ current_abs_state_ \in {"INACTIVE", "MONITORING", "INTERVENING"}
    /\ call'.op = "processBraking"

(***************************************************************************)
(* C12.  A processBraking call on a controller that is not faulted, with a *)
(* batch in which the sensor at position i reports another id and no       *)
(* sensor at a lower position has a violation, ends in FaultDetected with  *)
(* fault code 10+i.                                                        *)
(***************************************************************************)
C12_IdentityMismatch ==
    [][ActiveBrakingStep =>
        \A i \in Wheels :
            /\ IdMismatch(call'.wheel_speed_sensors, i)
            /\ NoViolationBelow(call'.wheel_speed_sensors, i)
            => /\ current_abs_state_' = "FAULT_DETECTED"
               /\ fault_code_' = 10 + i]_vars

\* Sensor 3 has reported the id of sensor 0, after a sensor with a reading
\* at the edge of the accepted range; the call started in Intervening.
C12_Witness ==
    /\ ActiveBrakingReturned
    /\ current_abs_state_ = "FAULT_DETECTED"
    /\ fault_code_ = 13
    /\ call.wheel_speed_sensors[3].id = 0
    /\ \E j \in Wheels : call.wheel_speed_sensors[j].value = 350
    /\ \E j \in Wheels : wheel_data_[j].is_locking

(***************************************************************************)
(* C13.  A reading is out of range exactly when it is below -10 or above   *)
(* 350 km/h.  A call on a controller that is not faulted ends in           *)
(* FaultDetected with code 20+i when the reading at position i is out of   *)
(* range under the right id and no lower position has a violation; and it  *)
(* raises no fault when all ids are right and every reading is within      *)
(* [-10, 350], the values -10 and 350 included.                            *)
(***************************************************************************)
C13_RangeBoundaries ==
    [][ActiveBrakingStep =>
        LET batch == call'.wheel_speed_sensors
        IN  /\ \A i \in Wheels :
                  /\ batch[i].value < -10 \/ batch[i].value > 350
                  /\ ~IdMismatch(batch, i)
                  /\ NoViolationBelow(batch, i)
                  => /\ current_abs_state_' = "FAULT_DETECTED"
                     /\ fault_code_' = 20 + i
            /\ (\A i \in Wheels :
                  /\ ~IdMismatch(batch, i)
                  /\ batch[i].value >= -10 /\ batch[i].value <= 350)
               => /\ current_abs_state_' # "FAULT_DETECTED"
                  /\ fault_code_' = fault_code_]_vars

\* A batch with the readings -10 and 350 has been accepted.
C13_Witness ==
    /\ ActiveBrakingReturned
    /\ current_abs_state_ # "FAULT_DETECTED"
    /\ fault_code_ = 0
    /\ \E i \in Wheels : call.wheel_speed_sensors[i].value = -10
    /\ \E i \in Wheels : call.wheel_speed_sensors[i].value = 350

(***************************************************************************)
(* C14.  After runDiagnostics returns, from whatever state it was called   *)
(* in, the state is Inactive with fault code 0 or FaultDetected with a     *)
(* fault code other than 0.                                                *)
(***************************************************************************)
C14_DiagnosticsOutcome ==
    call.op = "runDiagnostics" =>
        \/ current_abs_state_ = "INACTIVE" /\ fault_code_ = 0
        \/ current_abs_state_ = "FAULT_DETECTED" /\ fault_code_ # 0

\* Diagnostics have failed on the actuator after an intervention (a lockup
\* flag of the intervention is left).
C14_Witness ==
    /\ call.op = "runDiagnostics"
    /\ current_abs_state_ = "FAULT_DETECTED"
    /\ fault_code_ = 70
    /\ \E i \in Wheels : wheel_data_[i].is_locking

(***************************************************************************)
(* C15.  Between calls the state is FaultDetected exactly when the fault   *)
(* code is not 0; the code is one of the fault monitor's (10..13, 20..23,  *)
(* 30) or of the diagnostics' (50..53, 70); and a code other than 0        *)
(* becomes 0 only in a runDiagnostics call that passes.                    *)
(***************************************************************************)
FaultCodes == {0} \cup (10..13) \cup (20..23) \cup {30} \cup (50..53) \cup {70}

C15_FaultCodeTracksState ==
    /\ [](/\ current_abs_state_ = "FAULT_DETECTED" <=> fault_code_ # 0
          /\ fault_code_ \in FaultCodes)
    /\ [][fault_code_ # 0 /\ fault_code_' = 0 =>
            /\ call'.op = "runDiagnostics"
            /\ current_abs_state_' = "INACTIVE"]_vars

\* A fault of the fault monitor (the channels hold the rejected batch) has
\* been cleared by diagnostics.
C15_Witness ==
    /\ call.op = "runDiagnostics"
    /\ current_abs_state_ = "INACTIVE"
    /\ fault_code_ = 0
    /\ \E i \in Wheels : RangeFault(wheel_data_[i].speed_kmh)

(***************************************************************************)
(* C16.  After every processBraking call the reference speed is in         *)
(* [0, 300] km/h.                                                          *)
(***************************************************************************)
C16_ReferenceSpeedRange ==
    BrakingReturned =>
        /\ vehicle_reference_speed_kmh_ >= 0
        /\ vehicle_reference_speed_kmh_ <= 300 * Scale

\* The call read a 400 km/h reading beside negative readings, and the
\* reference speed is at the cap.
C16_Witness ==
    /\ ActiveBrakingReturned
    /\ vehicle_reference_speed_kmh_ = 300 * Scale
    /\ \E i \in Wheels : call.wheel_speed_sensors[i].value > 300
    /\ \E i \in Wheels : call.wheel_speed_sensors[i].value < 0

(***************************************************************************)
(* C17 as stated.  In a cycle that raises no fault: if the entry condition *)
(* is false and the state is Intervening, the state is Inactive when the   *)
(* call returns, the counter is 0 and all wheels are at the pedal          *)
(* pressure; if the entry condition is true and the state is Inactive, the *)
(* state is Intervening when a wheel locks and Monitoring otherwise.       *)
(***************************************************************************)
C17_EntryTransitions ==
    [][CleanBrakingStep =>
        /\ ~EntryHolds /\ current_abs_state_ = "INTERVENING" =>
              /\ current_abs_state_' = "INACTIVE"
              /\ cycles_since_last_intervention_' = 0
              /\ \A w \in Wheels : Pressure(w)' = call'.brake_pedal_pressure_input
        /\ EntryHolds /\ current_abs_state_ = "INACTIVE" =>
              current_abs_state_' = IF NoWheelLocks THEN "MONITORING"
                                    ELSE "INTERVENING"]_vars

(***************************************************************************)
(* C17 as amended: the same, with all wheels at the pedal pressure capped  *)
(* at 200 bar in the drop to Inactive.                                     *)
(***************************************************************************)
C17_EntryTransitionsCapped ==
    [][CleanBrakingStep =>
        /\ ~EntryHolds /\ current_abs_state_ = "INTERVENING" =>
              /\ current_abs_state_' = "INACTIVE"
              /\ cycles_since_last_intervention_' = 0
              /\ \A w \in Wheels :
                    Pressure(w)' = IF call'.brake_pedal_pressure_input > 200 THEN 200
                                   ELSE call'.brake_pedal_pressure_input
        /\ EntryHolds /\ current_abs_state_ = "INACTIVE" =>
              current_abs_state_' = IF NoWheelLocks THEN "MONITORING"
                                    ELSE "INTERVENING"]_vars

\* The controller has dropped out of an intervention (a flag of it is left)
\* at 3 km/h under 250 bar of pedal pressure.
C17_Witness ==
    /\ ActiveBrakingReturned
    /\ current_abs_state_ = "INACTIVE"
    /\ ~EntryCondition(vehicle_reference_speed_kmh_, call.brake_pedal_pressure_input)
    /\ call.brake_pedal_pressure_input = 250
    /\ cycles_since_last_intervention_ = 0
    /\ \E i \in Wheels : wheel_data_[i].is_locking
    /\ \A i \in Wheels : Pressure(i) = 200

(***************************************************************************)
(* C18.  After construction and after every call the controller has        *)
(* exactly the four wheel channels 0..3, with wheel_id 0, 1, 2, 3 in       *)
(* order, and the state is not Initializing.                               *)
(***************************************************************************)
C18_FourChannelsNeverInitializing ==
    /\ DOMAIN wheel_data_ = 0..3
    /\ \A i \in DOMAIN wheel_data_ : wheel_data_[i].wheel_id = i
    /\ current_abs_state_ # "INITIALIZING"

\* Both operations have run: diagnostics have passed after an intervention.
C18_Witness ==
    /\ call.op = "runDiagnostics"
    /\ current_abs_state_ = "INACTIVE"
    /\ \E i \in Wheels : wheel_data_[i].is_locking
    /\ \E i \in Wheels : Pressure(i) > 0

(***************************************************************************)
(* The pressure a wheel is modulated from: its pressure before the call    *)
(* when the cycle starts in Intervening with the wheel flagged as locking, *)
(* the pedal pressure of the call otherwise.  Capped(p) is p capped at the *)
(* actuator's 200 bar, Released(p) is p less 50 bar, floored at 0.         *)
(***************************************************************************)
BasePressure(w) ==
    IF current_abs_state_ = "INTERVENING" /\ wheel_data_[w].is_locking
    THEN Pressure(w)
    ELSE call'.brake_pedal_pressure_input

Capped(p) == IF p > 200 THEN 200 ELSE p

Released(p) == IF p > 50 THEN p - 50 ELSE 0

SlipOver15(speed, ref) == (ref - speed * Scale) * 100 > ref * 15

Locks(w) == LockupCondition(SpeedRead(w), vehicle_reference_speed_kmh_')

Slips(w) == SlipOver15(SpeedRead(w), vehicle_reference_speed_kmh_')

(***************************************************************************)
(* C19 as stated, read in the code's favour (the reduction is taken from   *)
(* the wheel's base pressure and the result is capped at 200 bar).  In a   *)
(* cycle that raises no fault, with the entry condition true, in which at  *)
(* least one wheel locks: every wheel that locks or whose slip exceeds 15% *)
(* is reduced by 50 bar, floored at 0, and every other wheel is set to the *)
(* pedal pressure.                                                         *)
(***************************************************************************)
C19_SlipOrLockReleases ==
    [][CleanBrakingStep /\ EntryHolds /\ (\E v \in Wheels : Locks(v)) =>
        \A w \in Wheels :
            Pressure(w)' =
                IF Locks(w) \/ Slips(w)
                THEN Capped(Released(BasePressure(w)))
                ELSE Capped(call'.brake_pedal_pressure_input)]_vars

(***************************************************************************)
(* C19 as amended.  In such a cycle every wheel that locks is reduced by   *)
(* 50 bar from its base pressure, floored at 0; every wheel whose slip     *)
(* exceeds 15% without locking is held at its base pressure; every other   *)
(* wheel is set to the pedal pressure; all capped at 200 bar.              *)
(***************************************************************************)
C19_LockReleasesSlipHolds ==
    [][CleanBrakingStep /\ EntryHolds /\ (\E v \in Wheels : Locks(v)) =>
        \A w \in Wheels :
            Pressure(w)' =
                IF Locks(w) THEN Capped(Released(BasePressure(w)))
                ELSE IF Slips(w) THEN Capped(BasePressure(w))
                ELSE Capped(call'.brake_pedal_pressure_input)]_vars

\* Wheel 1 stands still and has been released, wheel 3 turns at 70 km/h
\* against a reference of 83.75 km/h (slip 16.4%) and is held at the pedal
\* pressure of 100 bar.
C19_Witness ==
    /\ ActiveBrakingReturned
    /\ current_abs_state_ = "INTERVENING"
    /\ call.brake_pedal_pressure_input = 100
    /\ LockupCondition(call.wheel_speed_sensors[1].value, vehicle_reference_speed_kmh_)
    /\ SlipOver15(call.wheel_speed_sensors[3].value, vehicle_reference_speed_kmh_)
    /\ ~LockupCondition(call.wheel_speed_sensors[3].value, vehicle_reference_speed_kmh_)
    /\ ~wheel_data_[3].is_locking
    /\ Pressure(1) < 100
    /\ Pressure(3) = 100
    /\ Pressure(0) = 100

(***************************************************************************)
(* C20.  In a cycle that starts in Intervening, raises no fault and in     *)
(* which no wheel locks, each wheel below the pedal pressure rises to      *)
(* min(previous + 20, pedal) and each wheel above the pedal pressure is    *)
(* set to the pedal pressure, on every clean cycle of the recovery.        *)
(* Stated for the cycles with the entry condition true and a pedal         *)
(* pressure of at most 200 bar that is the pedal pressure of the call      *)
(* before.  The code reloads a wheel that is not                           *)
(* flagged with the pedal pressure (abs_control.cpp:307-308) before the    *)
(* step, and the first clean cycle clears the flags (abs_control.cpp:311). *)
(***************************************************************************)
C20_GradualReapply ==
    [][/\ CleanBrakingStep
       /\ current_abs_state_ = "INTERVENING"
       /\ EntryHolds
       /\ NoWheelLocks
       /\ call'.brake_pedal_pressure_input <= 200
       /\ call.op = "processBraking"
       /\ call.brake_pedal_pressure_input = call'.brake_pedal_pressure_input
       => \A w \in Wheels :
             LET p == call'.brake_pedal_pressure_input
             IN  /\ Pressure(w) < p =>
                       Pressure(w)' = IF Pressure(w) + 20 < p
                                      THEN Pressure(w) + 20 ELSE p
                 /\ Pressure(w) > p => Pressure(w)' = p]_vars

(***************************************************************************)
(* C21.  A cycle that raises no fault, is evaluated in Monitoring or       *)
(* Intervening (it starts in Monitoring, or the entry condition is true)   *)
(* and in which a wheel locks ends in Intervening with the counter at 0;   *)
(* and a step from Intervening to Monitoring is a clean processBraking     *)
(* cycle that finds the counter at 10, i.e. the 11th in a row.             *)
(***************************************************************************)
C21_LockRestartsHysteresis ==
    [][/\ ( /\ CleanBrakingStep
             /\ (current_abs_state_ = "MONITORING" \/ EntryHolds)
             /\ ~NoWheelLocks )
          => /\ current_abs_state_' = "INTERVENING"
             /\ cycles_since_last_intervention_' = 0
       /\ (current_abs_state_ = "INTERVENING" /\ current_abs_state_' = "MONITORING")
          => /\ call'.op = "processBraking"
             /\ NoWheelLocks
             /\ cycles_since_last_intervention_ = 10
             /\ cycles_since_last_intervention_' = 0]_vars

\* Wheel 2 has locked under 100 bar of pedal pressure: it is flagged and
\* released to 50 bar, the state is Intervening and the counter is 0.
C21_Witness ==
    /\ ActiveBrakingReturned
    /\ current_abs_state_ = "INTERVENING"
    /\ cycles_since_last_intervention_ = 0
    /\ LockupCondition(call.wheel_speed_sensors[2].value, vehicle_reference_speed_kmh_)
    /\ wheel_data_[2].is_locking
    /\ ~wheel_data_[1].is_locking
    /\ call.brake_pedal_pressure_input = 100
    /\ Pressure(2) = 50

(***************************************************************************)
(* C22.  In a cycle that raises no fault, does not start in Intervening    *)
(* and in which no wheel locks, all four wheels receive the pedal pressure *)
(* capped at 200 and the state after the cycle is Monitoring if the entry  *)
(* condition holds and Inactive otherwise; and after every cycle that      *)
(* raises no fault, Monitoring implies that the entry condition held in    *)
(* the cycle and Inactive that it did not.                                 *)
(***************************************************************************)
C22_PassThroughOutsideIntervention ==
    [][CleanBrakingStep =>
        /\ (current_abs_state_ # "INTERVENING" /\ NoWheelLocks) =>
              /\ \A w \in Wheels :
                    Pressure(w)' = Capped(call'.brake_pedal_pressure_input)
              /\ current_abs_state_' = IF EntryHolds THEN "MONITORING" ELSE "INACTIVE"
        /\ current_abs_state_' = "MONITORING" => EntryHolds
        /\ current_abs_state_' = "INACTIVE" => ~EntryHolds]_vars

\* A clean cycle at 100 km/h under 250 bar has ended in Monitoring with all
\* wheels at 200 bar.
C22_Witness ==
    /\ ActiveBrakingReturned
    /\ current_abs_state_ = "MONITORING"
    /\ call.brake_pedal_pressure_input = 250
    /\ \A w \in Wheels : Pressure(w) = 200
    /\ \A w \in Wheels : ~wheel_data_[w].is_locking

(***************************************************************************)
(* C23.  The controller is in Intervening after a processBraking cycle     *)
(* only if the entry condition held in that cycle.  The code tests the     *)
(* entry condition to leave Intervening and Inactive only                  *)
(* (abs_control.cpp:290-297): a cycle that starts in Monitoring runs the   *)
(* detection loop whatever the condition says.                             *)
(***************************************************************************)
C23_InterventionNeedsEntry ==
    ActiveBrakingReturned /\ current_abs_state_ = "INTERVENING" =>
        EntryCondition(vehicle_reference_speed_kmh_, call.brake_pedal_pressure_input)

\* The code of the violation of sensor i: identity is looked at before range.
ViolationCode(batch, i) == IF IdMismatch(batch, i) THEN 10 + i ELSE 20 + i

Violations(batch) ==
    {i \in Wheels : IdMismatch(batch, i) \/ RangeFault(batch[i].value)}

(***************************************************************************)
(* C24.  A processBraking call on a controller that is not faulted, with a *)
(* batch that has violations, ends in FaultDetected with the code of the   *)
(* first violation: that of the lowest position with a violation, 10 +     *)
(* position if the id is wrong there (whatever the reading) and 20 +       *)
(* position otherwise; violations at higher positions change nothing.      *)
(***************************************************************************)
C24_FirstViolationWins ==
    [][ActiveBrakingStep /\ Violations(call'.wheel_speed_sensors) # {} =>
        LET batch == call'.wheel_speed_sensors
            first == CHOOSE i \in Violations(batch) :
                         \A j \in Violations(batch) : i <= j
        IN  /\ current_abs_state_' = "FAULT_DETECTED"
            /\ fault_code_' = ViolationCode(batch, first)]_vars

\* Position 0 out of range and position 1 mis-identified: code 20.
C24_Witness ==
    /\ ActiveBrakingReturned
    /\ RangeFault(call.wheel_speed_sensors[0].value)
    /\ ~IdMismatch(call.wheel_speed_sensors, 0)
    /\ IdMismatch(call.wheel_speed_sensors, 1)
    /\ current_abs_state_ = "FAULT_DETECTED"
    /\ fault_code_ = 20

(***************************************************************************)
(* C25.  A processBraking call that starts in Inactive, Monitoring or      *)
(* Intervening and raises a fault leaves every wheel's applied pressure    *)
(* and is_locking flag and the counter of clean cycles as they were before *)
(* the call; the state becomes FaultDetected and the fault code is set.    *)
(***************************************************************************)
C25_FaultAbortsEvaluation ==
    [][ActiveBrakingStep /\ current_abs_state_' = "FAULT_DETECTED" =>
        /\ \A w \in Wheels :
              /\ Pressure(w)' = Pressure(w)
              /\ wheel_data_[w].is_locking' = wheel_data_[w].is_locking
        /\ cycles_since_last_intervention_' = cycles_since_last_intervention_
        /\ fault_code_ = 0
        /\ fault_code_' \in (10..13) \cup (20..23) \cup {30}]_vars

\* A fault raised in the middle of a recovery, under another pedal pressure:
\* wheel 1 keeps the 20 bar it had recovered to, the other wheels their 100
\* bar, and the counter its value.
C25_Witness ==
    /\ ActiveBrakingReturned
    /\ current_abs_state_ = "FAULT_DETECTED"
    /\ fault_code_ \in (10..13) \cup (20..23)
    /\ call.brake_pedal_pressure_input = 250
    /\ Pressure(1) = 20
    /\ Pressure(0) = 100
    /\ cycles_since_last_intervention_ = 1

(***************************************************************************)
(* C26.  After a processBraking cycle that starts in Inactive, Monitoring  *)
(* or Intervening and raises no fault, no wheel is flagged is_locking for  *)
(* which the lockup condition is false on that cycle's wheel speed and     *)
(* reference speed: a flag of an earlier cycle does not survive.  The code *)
(* writes the flags in the detection loop only (abs_control.cpp:304-315);  *)
(* a cycle that takes the Inactive branch of lines 364-370 leaves them as  *)
(* they were.  Stated for the cycles at 5 km/h and more (C6 has those      *)
(* below).                                                                 *)
(***************************************************************************)
C26_FlagIsThisCyclesVerdict ==
    [][CleanBrakingStep /\ vehicle_reference_speed_kmh_' >= 5 * Scale =>
        \A w \in Wheels :
            wheel_data_[w].is_locking' => Locks(w)]_vars

(***************************************************************************)
(* C29.  A runDiagnostics call whose sensor check fails ends in            *)
(* FaultDetected with a code in 50..53, also when the actuator check fails *)
(* too; it ends with code 70 exactly when the actuator check alone fails;  *)
(* when both checks pass the code is 0 whatever it was before the call.    *)
(* A processBraking call on a controller faulted by diagnostics leaves the *)
(* state and the code as they are.                                         *)
(***************************************************************************)
C29_DiagnosticsFaultCodes ==
    [][/\ call'.op = "runDiagnostics" =>
            /\ ~call'.sensor_conn_ok =>
                  /\ current_abs_state_' = "FAULT_DETECTED"
                  /\ fault_code_' \in 50..53
            /\ fault_code_' = 70 <=> (call'.sensor_conn_ok /\ ~call'.actuator_ok)
            /\ fault_code_' = 70 => current_abs_state_' = "FAULT_DETECTED"
            /\ (call'.sensor_conn_ok /\ call'.actuator_ok) => fault_code_' = 0
       /\ (call'.op = "processBraking" /\ fault_code_ \in (50..53) \cup {70}) =>
            /\ current_abs_state_' = "FAULT_DETECTED"
            /\ fault_code_' = fault_code_]_vars

\* Both checks have failed, on a controller that was in Intervening: the
\* code names the sensor.
C29_Witness ==
    /\ call.op = "runDiagnostics"
    /\ ~call.sensor_conn_ok
    /\ ~call.actuator_ok
    /\ current_abs_state_ = "FAULT_DETECTED"
    /\ fault_code_ = 53
    /\ \E w \in Wheels : wheel_data_[w].is_locking

(***************************************************************************)
(* C27.  The lockup detector returns true for a wheel exactly when the     *)
(* reference speed is at least 5 km/h, the slip (reference - wheel) /      *)
(* reference is above 0.20 and the wheel speed is below 0.85 x reference;  *)
(* it returns false for every wheel when the reference speed is below 5    *)
(* km/h, and for a wheel faster than the reference.                        *)
(***************************************************************************)
C27_LockupDetector ==
    call.op = "detectWheelLockup" =>
        \A w \in Wheels :
            LET speed == wheel_data_[w].speed_kmh
                ref == vehicle_reference_speed_kmh_
            IN  /\ wheel_data_[w].is_locking <=> LockupCondition(speed, ref)
                /\ ref < 5 * Scale => ~wheel_data_[w].is_locking
                /\ speed * Scale > ref => ~wheel_data_[w].is_locking

\* At a reference of 100 km/h the wheel at 70 km/h is flagged and the wheel
\* at 80 km/h, whose slip is exactly 20%, is not.
C27_Witness ==
    /\ call.op = "detectWheelLockup"
    /\ vehicle_reference_speed_kmh_ = 100 * Scale
    /\ wheel_data_[0].speed_kmh = 80 /\ ~wheel_data_[0].is_locking
    /\ wheel_data_[2].speed_kmh = 70 /\ wheel_data_[2].is_locking
    /\ wheel_data_[1].speed_kmh = 110 /\ ~wheel_data_[1].is_locking

\* The estimate as the claim words it, in 1/Scale km/h.
ValidReadings(batch) == {i \in Wheels : batch[i].value >= 0}

MeanOfValid(batch) ==
    LET valid == ValidReadings(batch)
        total == (IF 0 \in valid THEN batch[0].value ELSE 0)
               + (IF 1 \in valid THEN batch[1].value ELSE 0)
               + (IF 2 \in valid THEN batch[2].value ELSE 0)
               + (IF 3 \in valid THEN batch[3].value ELSE 0)
    IN  (total * Scale) \div Cardinality(valid)

LargestValid(batch) ==
    LET i == CHOOSE v \in ValidReadings(batch) :
                 \A u \in ValidReadings(batch) : batch[u].value <= batch[v].value
    IN  batch[i].value * Scale

ClaimedEstimate(batch, hint) ==
    IF ValidReadings(batch) = {} THEN 0
    ELSE LET mean == MeanOfValid(batch)
             h == hint * Scale
             first == IF hint > 0 /\ h - mean < 20 * Scale /\ mean - h < 20 * Scale
                      THEN (h + mean) \div 2 ELSE mean
             second == IF LargestValid(batch) > first /\ first > 5 * Scale
                       THEN (first + LargestValid(batch)) \div 2 ELSE first
         IN  IF second > 300 * Scale THEN 300 * Scale ELSE second

(***************************************************************************)
(* C28.  The reference speed updateVehicleReferenceSpeed leaves is 0 for a *)
(* batch without a valid (non-negative) reading and otherwise the mean of  *)
(* the valid readings, averaged with the hint when the hint is above 0 and *)
(* less than 20 km/h from the mean, then replaced by the midpoint of       *)
(* itself and the largest valid reading if that reading is above it and it *)
(* is above 5 km/h, then capped at 300.                                    *)
(***************************************************************************)
C28_ReferenceEstimate ==
    [][call'.op = "updateVehicleReferenceSpeed" =>
        vehicle_reference_speed_kmh_' =
            ClaimedEstimate(call'.wheel_speed_sensors, call'.speed_kmh)]_vars

\* An invalid reading next to 100, 100 and 110 km/h, with a hint of 90: the
\* mean of the three is 103 1/3, blended to 96 2/3, raised to 103 1/3.
C28_Witness ==
    /\ call.op = "updateVehicleReferenceSpeed"
    /\ call.speed_kmh = 90
    /\ call.wheel_speed_sensors[0].value = -5
    /\ call.wheel_speed_sensors[3].value = 110
    /\ vehicle_reference_speed_kmh_ * 3 = 310 * Scale

(***************************************************************************)
(* C30.  After a processBraking cycle that starts in Inactive, Monitoring  *)
(* or Intervening and raises no fault, no wheel's applied pressure is      *)
(* above the pedal pressure of that cycle.  The code releases a wheel that *)
(* is still flagged from the pressure the cycle before left on it          *)
(* (abs_control.cpp:307-309, 324-326), not from the pedal pressure.        *)
(***************************************************************************)
C30_NeverAbovePedal ==
    [][CleanBrakingStep =>
        \A w \in Wheels : Pressure(w)' <= call'.brake_pedal_pressure_input]_vars

(***************************************************************************)
(* C31.  When a wheel has been detected locking in j consecutive cycles    *)
(* that raise no fault, the first of them starting in Monitoring, under a  *)
(* pedal pressure p <= 200, its applied pressure after the j-th cycle is   *)
(* max(0, p - 50 j).  A wheel is detected locking in a cycle when the      *)
(* cycle ends in Intervening with the wheel flagged.  In DrainSpec the     *)
(* hint of the last call is j.                                             *)
(***************************************************************************)
C31_SustainedLockupDrains ==
    /\ call.op = "processBraking"
    /\ call.speed_kmh >= 1
    /\ current_abs_state_ = "INTERVENING"
    /\ call.brake_pedal_pressure_input <= 200
    => \A w \in Wheels :
          /\ call.wheel_speed_sensors[w].value = 0 => wheel_data_[w].is_locking
          /\ wheel_data_[w].is_locking =>
                Pressure(w) = Max(0, call.brake_pedal_pressure_input
                                        - 50 * call.speed_kmh)

\* Wheel 2 has been locking for three cycles under 200 bar: it is at 50 bar.
C31_Witness ==
    /\ call.op = "processBraking"
    /\ call.speed_kmh = 3
    /\ current_abs_state_ = "INTERVENING"
    /\ call.brake_pedal_pressure_input = 200
    /\ wheel_data_[2].is_locking
    /\ Pressure(2) = 50
    /\ Pressure(0) = 200

(***************************************************************************)
(* C32.  The counter of clean cycles is in 0..10 after the constructor and *)
(* after every processBraking and runDiagnostics call, and it is 0 after   *)
(* every step that takes the controller into Intervening from another      *)
(* state, whatever it was before the step.                                 *)
(***************************************************************************)
C32_CounterRange ==
    /\ [](cycles_since_last_intervention_ \in 0..10)
    /\ [][current_abs_state_ # "INTERVENING" /\ current_abs_state_' = "INTERVENING"
            => cycles_since_last_intervention_' = 0]_vars

\* A controller in Monitoring carries a counter of 10: runDiagnostics ended
\* an intervention and left the counter; the next lockup starts from it.
C32_Witness ==
    /\ ActiveBrakingReturned
    /\ current_abs_state_ = "MONITORING"
    /\ cycles_since_last_intervention_ = 10

\* The channels with every is_locking flag cleared.
FlagsCleared(wd) == [i \in Wheels |-> [wd[i] EXCEPT !.is_locking = FALSE]]

\* What this processBraking step would have made of the controller had its
\* flags been clear and its counter 0 when the call came.
CleanTwin ==
    Evaluate(current_abs_state_, 0,
             StoreSpeeds(FlagsCleared(wheel_data_), call'.wheel_speed_sensors),
             vehicle_reference_speed_kmh_', call'.brake_pedal_pressure_input)

(***************************************************************************)
(* C33.  A processBraking cycle that raises no fault, on a controller in   *)
(* Inactive or Monitoring, leaves the state and the applied pressures it   *)
(* would leave had every is_locking flag been clear and the counter 0; and *)
(* if it ends in Intervening it leaves the same flags and counter too, so  *)
(* that the two controllers are then the same.  Hence two controllers in   *)
(* the same state, Inactive or Monitoring, with the same pressures, go     *)
(* through the same states and pressures on every sequence of inputs,      *)
(* whatever their flags and counters.                                      *)
(***************************************************************************)
C33_StaleDataNoInfluence ==
    [][/\ ActiveBrakingStep
       /\ current_abs_state_ \in {"INACTIVE", "MONITORING"}
       /\ current_abs_state_' # "FAULT_DETECTED"
       => /\ current_abs_state_' = CleanTwin.state
          /\ \A w \in Wheels :
                Pressure(w)' = CleanTwin.wd[w].applied_brake_pressure_bar
          /\ current_abs_state_' = "INTERVENING" =>
                /\ cycles_since_last_intervention_' = CleanTwin.cycles
                /\ \A w \in Wheels :
                      wheel_data_[w].is_locking' = CleanTwin.wd[w].is_locking]_vars

\* A cycle has run in Inactive on a controller with a stale flag on wheel 1
\* and has left it Inactive, the flag still set, all wheels at the pedal's
\* 30 bar.
C33_Witness ==
    /\ ActiveBrakingReturned
    /\ current_abs_state_ = "INACTIVE"
    /\ wheel_data_[1].is_locking
    /\ call.wheel_speed_sensors[1].value = 3
    /\ call.brake_pedal_pressure_input = 30
    /\ \A w \in Wheels : Pressure(w) = 30

(***************************************************************************)
(* C34.  A runDiagnostics call leaves every wheel's applied pressure,      *)
(* speed and is_locking flag, the reference speed and the counter of clean *)
(* cycles as they were: it changes the state and the fault code only.      *)
(***************************************************************************)
C34_DiagnosticsFrame ==
    [][call'.op = "runDiagnostics" =>
        /\ wheel_data_' = wheel_data_
        /\ vehicle_reference_speed_kmh_' = vehicle_reference_speed_kmh_
        /\ cycles_since_last_intervention_' = cycles_since_last_intervention_]_vars

\* Diagnostics have passed on a controller that was intervening on wheel 1:
\* the wheel is still flagged and still at the 50 bar it was released to.
C34_Witness ==
    /\ call.op = "runDiagnostics"
    /\ current_abs_state_ = "INACTIVE"
    /\ wheel_data_[1].is_locking
    /\ wheel_data_[1].speed_kmh = 0
    /\ Pressure(1) = 50
    /\ Pressure(0) = 100
    /\ vehicle_reference_speed_kmh_ > 10 * Scale

\* This step is a processBraking call with the input of the call before it,
\* which was a processBraking call on a controller that was not faulted.
SameInputAgain ==
    /\ call.op = "processBraking"
    /\ call.wheel_speed_sensors # NotRead.wheel_speed_sensors
    /\ call'.op = "processBraking"
    /\ call'.wheel_speed_sensors = call.wheel_speed_sensors
    /\ call'.speed_kmh = call.speed_kmh
    /\ call'.brake_pedal_pressure_input = call.brake_pedal_pressure_input

(***************************************************************************)
(* C35.  The second of two consecutive processBraking cycles with the same *)
(* input, the first on a controller that is not faulted, neither raising a *)
(* fault, the entry condition false: it ends in Inactive with every wheel  *)
(* at the pedal pressure capped at 200.  So does every further cycle with  *)
(* that input, each being the second of two.                               *)
(***************************************************************************)
C35_SettlesWithinTwoCycles ==
    [][CleanBrakingStep /\ SameInputAgain /\ ~EntryHolds =>
        /\ current_abs_state_' = "INACTIVE"
        /\ \A w \in Wheels :
              Pressure(w)' = Capped(call'.brake_pedal_pressure_input)]_vars

\* With the pedal released, wheel 1 standing still at 87.5 km/h: the
\* controller is Inactive at 0 bar, the flag of the lockup still set.
C35_Witness ==
    /\ ActiveBrakingReturned
    /\ current_abs_state_ = "INACTIVE"
    /\ call.brake_pedal_pressure_input = 0
    /\ call.wheel_speed_sensors[1].value = 0
    /\ vehicle_reference_speed_kmh_ > 10 * Scale
    /\ wheel_data_[1].is_locking
    /\ \A w \in Wheels : Pressure(w) = 0

\* The state in which this step's processBraking cycle runs its evaluation,
\* after the entry check.
StateEvaluated ==
    EntryCheck(current_abs_state_, cycles_since_last_intervention_,
               PotentialInterventionNeeded(vehicle_reference_speed_kmh_',
                                           call'.brake_pedal_pressure_input)).state

(***************************************************************************)
(* C36.  A processBraking cycle that raises no fault and is evaluated in   *)
(* Intervening has the entry condition true; so a step that leaves         *)
(* Intervening with the entry condition true, which is the exit of the     *)
(* hysteresis counter, goes to Monitoring, from a counter of 10 and with   *)
(* no wheel locking.                                                       *)
(***************************************************************************)
C36_HysteresisExitToMonitoring ==
    [][CleanBrakingStep =>
        /\ StateEvaluated = "INTERVENING" => EntryHolds
        /\ (/\ current_abs_state_ = "INTERVENING"
            /\ current_abs_state_' # "INTERVENING"
            /\ EntryHolds)
           => /\ current_abs_state_' = "MONITORING"
              /\ cycles_since_last_intervention_ = 10
              /\ cycles_since_last_intervention_' = 0
              /\ NoWheelLocks]_vars

\* The twelfth cycle of the run, the eleventh clean one, has taken the
\* controller from Intervening to Monitoring.
C36_Witness ==
    /\ call.op = "processBraking"
    /\ call.speed_kmh = 12
    /\ current_abs_state_ = "MONITORING"
    /\ cycles_since_last_intervention_ = 0

\* The wheel speed is below 0.80 x the reference speed.
Below80(speed, ref) == speed * Scale * 5 < ref * 4

(***************************************************************************)
(* C37.  At a reference speed of 5 km/h or more a slip above 0.20 implies  *)
(* a wheel speed below 0.85 x reference, and the lockup detector returns   *)
(* true exactly when the reference speed is at least 5 km/h and the wheel  *)
(* speed is below 0.80 x reference; so the slip of 0 it assumes for a      *)
(* reference of 1 km/h or less never decides its result.                   *)
(***************************************************************************)
C37_DetectorIsOneThreshold ==
    call.op = "detectWheelLockup" =>
        \A w \in Wheels :
            LET speed == wheel_data_[w].speed_kmh
                ref == vehicle_reference_speed_kmh_
            IN  /\ (ref >= 5 * Scale /\ SlipOver20(speed, ref)) => Below85(speed, ref)
                /\ wheel_data_[w].is_locking <=> (ref >= 5 * Scale /\ Below80(speed, ref))

\* At a reference of 103.75 km/h the wheel at 80 km/h (77%) is flagged, the
\* wheels at 100 and 110 km/h are not.
C37_Witness ==
    /\ call.op = "detectWheelLockup"
    /\ vehicle_reference_speed_kmh_ * 4 = 415 * Scale
    /\ wheel_data_[0].speed_kmh = 80 /\ wheel_data_[0].is_locking
    /\ wheel_data_[1].speed_kmh = 110 /\ ~wheel_data_[1].is_locking
    /\ wheel_data_[2].speed_kmh = 100 /\ ~wheel_data_[2].is_locking

====
